---- MODULE Spec2Model ----
(***************************************************************************)
(* IPL player statistics pipeline: load, clean, analyze, render charts,    *)
(* write the report workbook, embed the charts (src/main.py), and its two  *)
(* orchestrations: main() of src/main.py and the Streamlit pages of        *)
(* src/gui_app.py.                                                         *)
(*                                                                         *)
(* A DataFrame is a sequence of rows; a row is [idx, c] where idx is the   *)
(* pandas index label and c maps each column name to a cell.  A cell is    *)
(* missing (NaN), a number, or a string (a sequence of characters).        *)
(* Numbers are integers: the bounded inputs contain no fractional values.  *)
(***************************************************************************)
EXTENDS Integers, Sequences, FiniteSets, TLC

VARIABLES
    heap,         \* object id -> DataFrame (the Python objects alive)
    input0,       \* contents of the source file ipl_data.xlsx
    df_raw,       \* reference to the loaded DataFrame (df / session_state.df_raw)
    df_ipl,       \* reference to the cleaned DataFrame (df / session_state.df_ipl)
    df_again,     \* reference to the result of cleaning the cleaned DataFrame
    top_runs,     \* analyze_ipl: top_runs
    top_wickets,  \* analyze_ipl: top_wickets
    summary,      \* analyze_ipl: summary
    fs_report,    \* the file ipl_analysis_report.xlsx
    fs_charts,    \* the image files under charts/: path -> content
    chart_paths,  \* the mapping returned by generate_charts, in insertion order
    pc,           \* position of the running orchestration
    mode,         \* which orchestration runs: main() or the Streamlit app
    trace,        \* calls made by the current run of the report pipeline
    runs,         \* number of completed runs of the report pipeline
    book1,        \* the workbook as left by the first completed run
    embeds,       \* embed_charts calls that saved since the file was last written
    last_map      \* the mapping passed to the last embed_charts call that saved

vars == <<heap, input0, df_raw, df_ipl, df_again, top_runs, top_wickets, summary,
          fs_report, fs_charts, chart_paths, pc, mode, trace, runs, book1,
          embeds, last_map>>

(***************************************************************************)
(* Bounds                                                                  *)
(***************************************************************************)
MaxRows == 3        \* rows of a raw dataset with duplicate identities
MaxLong == 11       \* rows of a cleaned dataset handed to analyze_ipl
MaxShort == 3       \* rows of a cleaned dataset with varied rates
MaxPipeRows == 2    \* rows of the source file of a pipeline run
MaxRuns == 2        \* runs of the report pipeline against the same paths
MaxEmbeds == 2      \* embed_charts calls on one written workbook

(***************************************************************************)
(* Cells                                                                   *)
(***************************************************************************)
NA == [k |-> "na", n |-> 0, s |-> <<>>]
Num(x) == [k |-> "num", n |-> x, s |-> <<>>]
Str(t) == [k |-> "str", n |-> 0, s |-> t]
IsNa(cell) == cell.k = "na"

NoRef == 0

Unknown == <<"U", "n", "k", "n", "o", "w", "n">>

Columns == {"Player", "Role", "Team", "Matches", "Runs", "Bat_SR", "Wickets", "Econ"}

\* the rows of df at the positions in S, in their order in df
RECURSIVE TakeRows(_, _, _)
TakeRows(df, S, n) ==
    IF n = 0 THEN <<>>
    ELSE TakeRows(df, S, n - 1) \o (IF n \in S THEN <<df[n]>> ELSE <<>>)

\* pandas gives a freshly read table the index labels 0 .. n-1
RangeIndex(rows) == [i \in 1..Len(rows) |-> [idx |-> i - 1, c |-> rows[i]]]

(***************************************************************************)
(* clean_ipl_data                                                          *)
(***************************************************************************)
FillValues ==
    [Player |-> Str(Unknown), Role |-> Str(Unknown), Team |-> Str(Unknown),
     Matches |-> Num(0), Runs |-> Num(0), Bat_SR |-> Num(0),
     Wickets |-> Num(0), Econ |-> Num(0)]

\* DataFrame.fillna(dict): a new DataFrame, each missing cell of a listed
\* column replaced by the column's fill value
Fillna(df) ==
    [i \in 1..Len(df) |->
        [df[i] EXCEPT !.c = [col \in Columns |->
            IF col \in DOMAIN FillValues /\ IsNa(df[i].c[col])
            THEN FillValues[col] ELSE df[i].c[col]]]]

DigitVal ==
    [d \in {"0", "1", "2", "3", "4", "5", "6", "7", "8", "9"} |->
        CASE d = "0" -> 0 [] d = "1" -> 1 [] d = "2" -> 2 [] d = "3" -> 3
          [] d = "4" -> 4 [] d = "5" -> 5 [] d = "6" -> 6 [] d = "7" -> 7
          [] d = "8" -> 8 [] d = "9" -> 9]

IsDigits(t) == Len(t) > 0 /\ \A i \in 1..Len(t) : t[i] \in DOMAIN DigitVal

RECURSIVE DigitsValue(_)
DigitsValue(t) ==
    IF t = <<>> THEN 0
    ELSE 10 * DigitsValue(SubSeq(t, 1, Len(t) - 1)) + DigitVal[t[Len(t)]]

\* the number a string denotes: an optional sign and decimal digits;
\* NA when the string is not a number
ParseNumber(t) ==
    LET signed == Len(t) > 0 /\ t[1] \in {"-", "+"}
        body == IF signed THEN Tail(t) ELSE t
    IN  IF ~IsDigits(body) THEN NA
        ELSE IF signed /\ t[1] = "-" THEN Num(0 - DigitsValue(body))
        ELSE Num(DigitsValue(body))

\* pd.to_numeric(errors='coerce') on one value
ToNumeric(cell) ==
    CASE cell.k = "num" -> cell
      [] cell.k = "str" -> ParseNumber(cell.s)
      [] OTHER -> NA

NumericCols == <<"Runs", "Wickets", "Bat_SR", "Econ">>

ToNumericNoFill(df, col) ==
    [i \in 1..Len(df) |-> [df[i] EXCEPT !.c[col] = ToNumeric(df[i].c[col])]]

\* df[col] = pd.to_numeric(df[col], errors='coerce').fillna(0)
CoerceCol(df, col) ==
    [i \in 1..Len(df) |->
        [df[i] EXCEPT !.c[col] =
            LET v == ToNumeric(df[i].c[col]) IN IF IsNa(v) THEN Num(0) ELSE v]]

RECURSIVE CoerceCols(_, _)
CoerceCols(df, k) ==
    IF k = 0 THEN df ELSE CoerceCol(CoerceCols(df, k - 1), NumericCols[k])

Identity(row) == <<row.c["Player"], row.c["Team"]>>

DropDuplicatesKeepLast(df) ==
    TakeRows(df, {i \in 1..Len(df) :
                    \A j \in (i + 1)..Len(df) : Identity(df[j]) # Identity(df[i])},
             Len(df))

\* DataFrame.drop_duplicates(subset=['Player', 'Team']): a new DataFrame
\* without the rows whose identity occurred in an earlier row
DropDuplicates(df) ==
    TakeRows(df, {i \in 1..Len(df) :
                    \A j \in 1..(i - 1) : Identity(df[j]) # Identity(df[i])},
             Len(df))

\* the smallest object id not in use
NewId(h) == CHOOSE r \in 1..(Cardinality(DOMAIN h) + 1) : r \notin DOMAIN h

\* fillna(inplace=True): the caller's object is overwritten
FillnaInplace(h, r) == [heap |-> [h EXCEPT ![r] = Fillna(h[r])], ret |-> r]

\* df = df.fillna({...}): binds df to a new object
FillnaCall(h, r) ==
    LET r1 == NewId(h) IN [heap |-> h @@ (r1 :> Fillna(h[r])), ret |-> r1]

\* de-duplication before normalisation
clean_ipl_data_dedup_first(h, r) ==
    LET r2 == NewId(h)
    IN  [heap |-> h @@ (r2 :> CoerceCols(Fillna(DropDuplicates(h[r])),
                                         Len(NumericCols))),
         ret |-> r2]

\* clean_ipl_data(df) on the object r: the heap after the call and the
\* reference returned.  The intermediate object made by fillna is garbage
\* once the function returns.
clean_ipl_data(h, r) ==
    LET f == FillnaCall(h, r)
        h1 == [f.heap EXCEPT ![f.ret] = CoerceCols(f.heap[f.ret], Len(NumericCols))]
        r2 == NewId(h1)
        h2 == h1 @@ (r2 :> DropDuplicates(h1[f.ret]))
    IN  [heap |-> [o \in (DOMAIN h2) \ ({f.ret} \ {r}) |-> h2[o]], ret |-> r2]

(***************************************************************************)
(* analyze_ipl                                                             *)
(***************************************************************************)
TopN == 10

\* a tie is placed before the rows it ties with
InsertBeforeTies(sorted, row, col) ==
    LET before == {i \in 1..Len(sorted) : sorted[i].c[col].n > row.c[col].n}
    IN  SubSeq(sorted, 1, Cardinality(before)) \o <<row>>
            \o SubSeq(sorted, Cardinality(before) + 1, Len(sorted))

\* one step of the stable descending sort: row goes after every row whose
\* value is greater or equal
InsertDesc(sorted, row, col) ==
    LET before == {i \in 1..Len(sorted) : sorted[i].c[col].n >= row.c[col].n}
    IN  SubSeq(sorted, 1, Cardinality(before)) \o <<row>>
            \o SubSeq(sorted, Cardinality(before) + 1, Len(sorted))

RECURSIVE SortDesc(_, _, _)
SortDesc(df, col, n) ==
    IF n = 0 THEN <<>> ELSE InsertDesc(SortDesc(df, col, n - 1), df[n], col)

HeadRows(df, n) == SubSeq(df, 1, IF n < Len(df) THEN n ELSE Len(df))

\* df[[...]]: the listed columns only
Project(df, cols) ==
    [i \in 1..Len(df) |-> [idx |-> df[i].idx, c |-> [col \in cols |-> df[i].c[col]]]]

\* DataFrame.nlargest(n, col), keep='first': the first n rows of the
\* descending order that keeps ties in their original order
NLargest(df, n, col) == HeadRows(SortDesc(df, col, Len(df)), n)

NaN == [k |-> "nan", num |-> 0, den |-> 1]
Unset == [k |-> "unset", num |-> 0, den |-> 1]

RECURSIVE SumSeq(_)
SumSeq(q) == IF q = <<>> THEN 0 ELSE q[1].n + SumSeq(Tail(q))

\* Series.mean(): the quotient num/den, NaN for an empty series
Mean(q) == IF q = <<>> THEN NaN ELSE [k |-> "num", num |-> SumSeq(q), den |-> Len(q)]

Column(df, col) == [i \in 1..Len(df) |-> df[i].c[col]]

\* Series.replace(0, pd.NA)
ReplaceZero(q) == [i \in 1..Len(q) |-> IF q[i] = Num(0) THEN NA ELSE q[i]]

\* Series.dropna()
Dropna(q) == SelectSeq(q, LAMBDA v : ~IsNa(v))

\* the economy average taken over all rows
EconMeanAll(df) == Mean(Column(df, "Econ"))

\* df['Econ'].replace(0, pd.NA).dropna().astype(float).mean()
EconMean(df) == Mean(Dropna(ReplaceZero(Column(df, "Econ"))))

analyze_ipl(df) ==
    [top_runs |-> Project(NLargest(df, TopN, "Runs"), {"Player", "Team", "Runs"}),
     top_wickets |-> Project(NLargest(df, TopN, "Wickets"), {"Player", "Team", "Wickets"}),
     summary |-> [Avg_Batting_SR |-> Mean(Column(df, "Bat_SR")),
                  Avg_Bowling_Econ |-> EconMean(df)]]

NoSummary == [Avg_Batting_SR |-> Unset, Avg_Bowling_Econ |-> Unset]

(***************************************************************************)
(* generate_charts                                                         *)
(***************************************************************************)
ChartsDir == "charts"

\* the four charts in the order generate_charts renders them:
\* label in the returned mapping, file name, plotted column, kind
ChartSpecs ==
    << [label |-> "runs", file |-> "runs_dist.png", col |-> "Runs", kind |-> "hist"],
       [label |-> "wickets", file |-> "wickets_dist.png", col |-> "Wickets", kind |-> "hist"],
       [label |-> "team_runs", file |-> "team_runs.png", col |-> "Runs", kind |-> "bar"],
       [label |-> "team_wickets", file |-> "team_wickets.png", col |-> "Wickets", kind |-> "bar"] >>

\* os.path.join(charts_dir, file)
PathJoin(dir, file) == <<dir, file>>

RECURSIVE SumOver(_, _, _)
SumOver(df, S, col) ==
    IF S = {} THEN 0
    ELSE LET i == CHOOSE x \in S : TRUE IN df[i].c[col].n + SumOver(df, S \ {i}, col)

\* df.groupby('Team')[col].sum()
GroupSum(df, col) ==
    [t \in {df[i].c["Team"] : i \in 1..Len(df)} |->
        SumOver(df, {i \in 1..Len(df) : df[i].c["Team"] = t}, col)]

\* what the image of a chart shows: the values of the histogram, or the
\* total of each team's bar
Render(df, spec) ==
    [kind |-> spec.kind, col |-> spec.col,
     hist |-> IF spec.kind = "hist" THEN Column(df, spec.col) ELSE <<>>,
     bars |-> IF spec.kind = "bar" THEN GroupSum(df, spec.col) ELSE <<>>]

NoFiles == [p \in {} |-> 0]

Override(f, g) == [x \in (DOMAIN f) \cup (DOMAIN g) |-> IF x \in DOMAIN g THEN g[x] ELSE f[x]]

\* the image files after the first k charts were saved (savefig overwrites)
ChartFiles(files, df, dir, k) ==
    Override(files, [p \in {PathJoin(dir, ChartSpecs[j].file) : j \in 1..k} |->
        LET j == CHOOSE x \in 1..k : PathJoin(dir, ChartSpecs[x].file) = p
        IN  Render(df, ChartSpecs[j])])

\* the dict paths after the first k charts, in insertion order
ChartPaths(dir, k) ==
    [j \in 1..k |-> [label |-> ChartSpecs[j].label, path |-> PathJoin(dir, ChartSpecs[j].file)]]

(***************************************************************************)
(* export_report and embed_charts                                          *)
(***************************************************************************)
NoFile == [state |-> "absent", sheets |-> <<>>]
PartialFile == [state |-> "partial", sheets |-> <<>>]

\* DataFrame.to_excel(index=False): a header row, then one row per record
SheetRows(view, cols) ==
    <<[j \in 1..Len(cols) |-> Str(cols[j])]>> \o
    [i \in 1..Len(view) |-> [j \in 1..Len(cols) |-> view[i].c[cols[j]]]]

\* summary.rename("Value").reset_index().rename(columns={'index': 'Metric'})
SummaryRows(sm) ==
    << <<Str("Metric"), Str("Value")>>,
       <<Str("Avg_Batting_SR"), sm.Avg_Batting_SR>>,
       <<Str("Avg_Bowling_Econ"), sm.Avg_Bowling_Econ>> >>

Sheet(name, rows) == [name |-> name, rows |-> rows, images |-> <<>>]

DataSheets(tr, tw, sm) ==
    << Sheet("Top_Run_Scorers", SheetRows(tr, <<"Player", "Team", "Runs">>)),
       Sheet("Top_Wicket_Takers", SheetRows(tw, <<"Player", "Team", "Wickets">>)),
       Sheet("Summary", SummaryRows(sm)) >>

\* ExcelWriter in append mode: the sheets it does not write are kept
export_report_append(old, tr, tw, sm) ==
    [state |-> "ok",
     sheets |-> DataSheets(tr, tw, sm) \o
                SelectSeq(old.sheets, LAMBDA sh : sh.name = "Charts")]

\* export_report: pd.ExcelWriter(output_file) creates the file anew
\* whatever was at the path (old)
export_report(old, tr, tw, sm) ==
    [state |-> "ok", sheets |-> DataSheets(tr, tw, sm)]

SheetNames(wb) == [i \in 1..Len(wb.sheets) |-> wb.sheets[i].name]

HasSheet(wb, name) == \E i \in 1..Len(wb.sheets) : wb.sheets[i].name = name

\* wb.create_sheet('Charts') when the workbook has no such sheet
WithCharts(wb) ==
    IF HasSheet(wb, "Charts") THEN wb
    ELSE [wb EXCEPT !.sheets = Append(@, Sheet("Charts", <<>>))]

FirstRow == 1
RowStep == 25

AnchorRowNoStep(i) == FirstRow

\* the value of row when the i-th entry (from 0) of the mapping is placed
AnchorRow(i) == FirstRow + RowStep * i

\* the images one embed_charts call adds, in the mapping's iteration order
NewImages(files, m) ==
    [i \in 1..Len(m) |->
        [anchor |-> [col |-> "A", row |-> AnchorRow(i - 1)],
         path |-> m[i].path, image |-> files[m[i].path]]]

\* load_workbook fails on a missing or damaged file, XLImage on a missing image
CanEmbed(wb, files, m) ==
    /\ wb.state = "ok"
    /\ \A i \in 1..Len(m) : m[i].path \in DOMAIN files

\* embed_charts: the workbook saved back; images read from the loaded
\* workbook stay on the sheet and ws.add_image appends
embed_charts(wb, files, m) ==
    LET w == WithCharts(wb)
    IN  [w EXCEPT !.sheets = [i \in 1..Len(w.sheets) |->
            IF w.sheets[i].name = "Charts"
            THEN [w.sheets[i] EXCEPT !.images = @ \o NewImages(files, m)]
            ELSE w.sheets[i]]]

ChartsSheet(wb) ==
    LET S == {i \in 1..Len(wb.sheets) : wb.sheets[i].name = "Charts"}
    IN  wb.sheets[CHOOSE i \in S : TRUE]

(***************************************************************************)
(* Bounded inputs                                                          *)
(***************************************************************************)
CellVals == {NA, Num(0 - 1), Num(3), Str(<<"1", "2">>), Str(<<"-", "2">>), Str(<<"x">>)}

\* one-row tables with every kind of value in every numeric column
RichRows ==
    [Player : {NA, Str(<<"A">>)}, Role : {NA, Str(<<"B", "a", "t">>)},
     Team : {Str(<<"T", "1">>)}, Matches : CellVals, Runs : CellVals,
     Bat_SR : CellVals, Wickets : CellVals, Econ : CellVals]

\* rows with few identities, so that tables repeat them
DedupRows ==
    [Player : {NA, Str(Unknown), Str(<<"A">>)}, Role : {Str(<<"B", "a", "t">>)},
     Team : {NA, Str(<<"T", "1">>)}, Matches : {Num(1)}, Runs : {Num(1), Num(2)},
     Bat_SR : {Num(0)}, Wickets : {Num(0)}, Econ : {Num(0)}]


DigitChars == <<"0", "1", "2", "3", "4", "5", "6", "7", "8", "9">>
PlayerName(i) == <<"P", DigitChars[(i \div 10) + 1], DigitChars[(i % 10) + 1]>>

CleanRow(i, r, w, sr, e) ==
    [Player |-> Str(PlayerName(i)), Role |-> Str(<<"B", "a", "t">>),
     Team |-> Str(<<"T", "1">>), Matches |-> Num(1), Runs |-> Num(r),
     Bat_SR |-> Num(sr), Wickets |-> Num(w), Econ |-> Num(e)]

\* a cleaned table of n rows with ties in Runs (0, 1 or 2) and in Wickets
\* (0 to 3), row i taking its values from the choice f[i]
LongDataset(n, f) ==
    [i \in 1..n |-> CleanRow(i, f[i] * (1 + (i % 2)), (1 - f[i]) * (1 + (i % 3)), 0, 0)]

ShortPalette == {0, 6, 9} \X {0, 100}

\* a cleaned table of n rows with varied Econ and Bat_SR
ShortDataset(n, f) == [i \in 1..n |-> CleanRow(i, i % 2, 0, f[i][2], f[i][1])]

ApiPalette == {<<0, 0>>, <<7, 100>>}

PipeRows ==
    [Player : {NA, Str(<<"A">>)}, Role : {Str(<<"B", "a", "t">>)},
     Team : {Str(<<"T", "1">>)}, Matches : {Num(1)}, Runs : {Num(1), Str(<<"x">>)},
     Bat_SR : {Num(0)}, Wickets : {Num(0)}, Econ : {Num(0), Num(7)}]


(***************************************************************************)
(* Calls of clean_ipl_data by a caller that keeps its reference            *)
(***************************************************************************)
dfVars == <<heap, input0, df_raw, df_ipl, df_again>>
anVars == <<top_runs, top_wickets, summary>>
fsVars == <<fs_report, fs_charts, chart_paths>>
runVars == <<trace, runs, book1>>
apiVars == <<embeds, last_map>>

Idle ==
    /\ top_runs = <<>> /\ top_wickets = <<>> /\ summary = NoSummary
    /\ fs_report = NoFile /\ fs_charts = NoFiles /\ chart_paths = <<>>
    /\ trace = <<>> /\ runs = 0 /\ book1 = NoFile
    /\ embeds = 0 /\ last_map = <<>>

InitClean ==
    /\ \/ \E n \in 0..MaxRows : \E q \in [1..n -> DedupRows] : input0 = RangeIndex(q)
       \/ \E r \in RichRows : input0 = RangeIndex(<<r>>)
    /\ heap = (1 :> input0)
    /\ df_raw = 1 /\ df_ipl = NoRef /\ df_again = NoRef
    /\ mode = "clean" /\ pc = "clean"
    /\ Idle

\* cleaned = clean_ipl_data(df)
CleanCall ==
    /\ pc = "clean"
    /\ LET r == clean_ipl_data(heap, df_raw)
       IN  heap' = r.heap /\ df_ipl' = r.ret
    /\ pc' = "cleaned"
    /\ UNCHANGED <<input0, df_raw, df_again, mode, anVars, fsVars, runVars, apiVars>>

\* again = clean_ipl_data(cleaned)
CleanAgain ==
    /\ pc = "cleaned"
    /\ LET r == clean_ipl_data(heap, df_ipl)
       IN  heap' = r.heap /\ df_again' = r.ret
    /\ pc' = "recleaned"
    /\ UNCHANGED <<input0, df_raw, df_ipl, mode, anVars, fsVars, runVars, apiVars>>

NextClean == CleanCall \/ CleanAgain

SpecClean == InitClean /\ [][NextClean]_vars

(***************************************************************************)
(* The report pipeline: main() of main.py and the pages of gui_app.py      *)
(***************************************************************************)
\* the call that follows the embedding is the chart rendering
NextStageEmbedEarly(stage) ==
    CASE stage = "analyze" -> "export"
      [] stage = "export" -> "embed"
      [] stage = "embed" -> "charts"
      [] stage = "charts" -> "done"

\* the order of the calls in main() and in the report button's handler
NextStage(stage) ==
    CASE stage = "analyze" -> "export"
      [] stage = "export" -> "charts"
      [] stage = "charts" -> "embed"
      [] stage = "embed" -> "done"

Init ==
    /\ \E n \in 0..MaxPipeRows : \E q \in [1..n -> PipeRows] : input0 = RangeIndex(q)
    /\ heap = <<>>
    /\ df_raw = NoRef /\ df_ipl = NoRef /\ df_again = NoRef
    /\ mode \in {"cli", "gui"} /\ pc = "start"
    /\ Idle

\* load_ipl_data("ipl_data.xlsx"): the table read, or an exception (file
\* missing or unreadable) which ends main() and makes the app return
Load ==
    /\ pc = "start"
    /\ \/ /\ heap' = (1 :> input0)
          /\ df_raw' = 1
          /\ pc' = IF mode = "cli" THEN "clean" ELSE "idle"
       \/ /\ pc' = "failed"
          /\ UNCHANGED <<heap, df_raw>>
    /\ UNCHANGED <<input0, df_ipl, df_again, mode, anVars, fsVars, runVars, apiVars>>

\* main(): df = clean_ipl_data(df); the loaded object is no longer referenced
CliClean ==
    /\ pc = "clean"
    /\ LET r == clean_ipl_data(heap, df_raw)
       IN  /\ heap' = (1 :> r.heap[r.ret])
           /\ df_ipl' = 1
    /\ df_raw' = NoRef
    /\ pc' = "analyze"
    /\ UNCHANGED <<input0, df_again, mode, anVars, fsVars, runVars, apiVars>>

\* DataFrame.copy()
Copy(h, r) == LET r1 == NewId(h) IN [heap |-> h @@ (r1 :> h[r]), ret |-> r1]

\* "Clean Data Now": session_state.df_ipl = clean_ipl_data(df_raw.copy()).copy()
ClickClean ==
    /\ pc = "idle"
    /\ LET c == Copy((1 :> heap[df_raw]), 1)
           r == clean_ipl_data(c.heap, c.ret)
           k == Copy(r.heap, r.ret)
       IN  /\ heap' = (1 :> k.heap[1]) @@ (2 :> k.heap[k.ret])
           /\ df_ipl' = 2
    /\ UNCHANGED <<input0, df_raw, df_again, pc, mode, anVars, fsVars, runVars, apiVars>>

\* "Generate Complete Analysis Report" pressed with cleaned data in the session
ClickReport ==
    /\ pc = "idle"
    /\ df_ipl # NoRef
    /\ pc' = "analyze"
    /\ UNCHANGED <<dfVars, mode, anVars, fsVars, runVars, apiVars>>

\* top_runs, top_wickets, summary = analyze_ipl(df)
Analyze ==
    /\ pc = "analyze"
    /\ LET a == analyze_ipl(heap[df_ipl])
       IN  /\ top_runs' = a.top_runs
           /\ top_wickets' = a.top_wickets
           /\ summary' = a.summary
    /\ pc' = NextStage("analyze")
    /\ UNCHANGED <<dfVars, mode, fsVars, runVars, apiVars>>

\* export_report(output_file, ...): the file written anew, or an exception
\* that leaves the old file or a damaged one
ExportReport ==
    /\ pc = "export"
    /\ \/ /\ fs_report' = export_report(fs_report, top_runs, top_wickets, summary)
          /\ embeds' = 0 /\ last_map' = <<>>
          /\ trace' = Append(trace, "export_ok")
          /\ pc' = NextStage("export")
       \/ /\ fs_report' \in {fs_report, PartialFile}
          /\ trace' = Append(trace, "export_raise")
          /\ pc' = "failed"
          /\ UNCHANGED apiVars
    /\ UNCHANGED <<dfVars, mode, anVars, fs_charts, chart_paths, runs, book1>>

\* chart_paths = generate_charts(df, charts_dir): all four images saved and
\* the mapping returned, or an exception after the first k images
GenerateCharts ==
    /\ pc = "charts"
    /\ \E k \in 0..Len(ChartSpecs) :
        /\ fs_charts' = ChartFiles(fs_charts, heap[df_ipl], ChartsDir, k)
        /\ IF k = Len(ChartSpecs)
           THEN /\ chart_paths' = ChartPaths(ChartsDir, k)
                /\ trace' = Append(trace, "charts_ok")
                /\ pc' = NextStage("charts")
           ELSE /\ trace' = Append(trace, "charts_raise")
                /\ pc' = "failed"
                /\ UNCHANGED chart_paths
    /\ UNCHANGED <<dfVars, mode, anVars, fs_report, runs, book1, apiVars>>

\* embed_charts(output_file, chart_paths): the workbook saved with the
\* images, or an exception (no workbook, no image, save failed)
EmbedCharts ==
    /\ pc = "embed"
    /\ trace' = Append(trace, "embed_call")
    /\ \/ /\ CanEmbed(fs_report, fs_charts, chart_paths)
          /\ fs_report' = embed_charts(fs_report, fs_charts, chart_paths)
          /\ embeds' = embeds + 1 /\ last_map' = chart_paths
          /\ pc' = NextStage("embed")
       \/ /\ fs_report' \in {fs_report} \cup
                 (IF CanEmbed(fs_report, fs_charts, chart_paths) THEN {PartialFile} ELSE {})
          /\ pc' = "failed"
          /\ UNCHANGED apiVars
    /\ UNCHANGED <<dfVars, mode, anVars, fs_charts, chart_paths, runs, book1>>

\* the run has made all its calls: main() prints and returns, the app shows
\* the results
Complete ==
    /\ pc = "done"
    /\ runs < MaxRuns
    /\ runs' = runs + 1
    /\ book1' = IF runs = 0 THEN fs_report ELSE book1
    /\ pc' = "finished"
    /\ UNCHANGED <<dfVars, mode, anVars, fsVars, trace, apiVars>>

\* the next run against the same paths: main() started again, or the
\* script of the app run again on the next interaction
Rerun ==
    /\ pc \in {"finished", "failed"}
    /\ top_runs' = <<>> /\ top_wickets' = <<>> /\ summary' = NoSummary
    /\ chart_paths' = <<>> /\ trace' = <<>>
    /\ IF mode = "gui" /\ df_raw # NoRef
       THEN pc' = "idle" /\ UNCHANGED <<heap, df_raw, df_ipl>>
       ELSE pc' = "start" /\ heap' = <<>> /\ df_raw' = NoRef /\ df_ipl' = NoRef
    /\ UNCHANGED <<input0, df_again, mode, fs_report, fs_charts, runs, book1, apiVars>>

\* "Generate Charts" on the View Charts page: generate_charts(df, charts_dir)
ClickGenerateCharts ==
    /\ pc = "idle"
    /\ df_ipl # NoRef
    /\ \E k \in 0..Len(ChartSpecs) :
        fs_charts' = ChartFiles(fs_charts, heap[df_ipl], ChartsDir, k)
    /\ UNCHANGED <<dfVars, pc, mode, anVars, fs_report, chart_paths, runVars, apiVars>>

Next ==
    \/ Load \/ CliClean \/ ClickClean \/ ClickReport \/ Analyze \/ ExportReport
    \/ GenerateCharts \/ EmbedCharts \/ Complete \/ Rerun \/ ClickGenerateCharts

Spec == Init /\ [][Next]_vars

(***************************************************************************)
(* analyze_ipl on cleaned Datasets                                         *)
(***************************************************************************)
InitAnalyze ==
    /\ \/ \E n \in 1..MaxLong : \E f \in [1..n -> 0..1] :
              input0 = RangeIndex(LongDataset(n, f))
       \/ \E n \in 0..MaxShort : \E f \in [1..n -> ShortPalette] :
              input0 = RangeIndex(ShortDataset(n, f))
    /\ heap = (1 :> input0)
    /\ df_raw = NoRef /\ df_ipl = 1 /\ df_again = NoRef
    /\ mode = "analyze" /\ pc = "analyze"
    /\ Idle

NextAnalyze == Analyze

SpecAnalyze == InitAnalyze /\ [][NextAnalyze]_vars

(***************************************************************************)
(* The file operations called in any order on the same paths               *)
(***************************************************************************)
InitApi ==
    /\ \E n \in 0..MaxPipeRows : \E f \in [1..n -> ApiPalette] :
           input0 = RangeIndex(ShortDataset(n, f))
    /\ heap = (1 :> input0)
    /\ df_raw = NoRef /\ df_ipl = 1 /\ df_again = NoRef
    /\ mode = "api" /\ pc = "api"
    /\ top_runs = analyze_ipl(input0).top_runs
    /\ top_wickets = analyze_ipl(input0).top_wickets
    /\ summary = analyze_ipl(input0).summary
    /\ fs_report = NoFile /\ fs_charts = NoFiles /\ chart_paths = <<>>
    /\ trace = <<>> /\ runs = 0 /\ book1 = NoFile
    /\ embeds = 0 /\ last_map = <<>>

\* export_report(output_file, top_runs, top_wickets, summary)
ApiExport ==
    /\ pc = "api"
    /\ fs_report' = export_report(fs_report, top_runs, top_wickets, summary)
    /\ embeds' = 0 /\ last_map' = <<>>
    /\ UNCHANGED <<dfVars, pc, mode, anVars, fs_charts, chart_paths, runVars>>

\* chart_paths = generate_charts(df)
ApiGenerateCharts ==
    /\ pc = "api"
    /\ fs_charts' = ChartFiles(fs_charts, heap[df_ipl], ChartsDir, Len(ChartSpecs))
    /\ chart_paths' = ChartPaths(ChartsDir, Len(ChartSpecs))
    /\ UNCHANGED <<dfVars, pc, mode, anVars, fs_report, runVars, apiVars>>

\* the mappings a caller can pass: the charts of ChartSpecs at the
\* positions of order
Mapping(order) ==
    [i \in 1..Len(order) |-> ChartPaths(ChartsDir, Len(ChartSpecs))[order[i]]]

\* the entries are taken in rising or in falling order
IsOrder(order) ==
    \/ \A i, j \in 1..Len(order) : i < j => order[i] < order[j]
    \/ \A i, j \in 1..Len(order) : i < j => order[i] > order[j]

\* embed_charts(excel_file, m) for a mapping m of any size and order
ApiEmbed ==
    /\ pc = "api"
    /\ embeds < MaxEmbeds
    /\ \E n \in 0..Len(ChartSpecs) : \E order \in [1..n -> 1..Len(ChartSpecs)] :
        /\ IsOrder(order)
        /\ CanEmbed(fs_report, fs_charts, Mapping(order))
        /\ fs_report' = embed_charts(fs_report, fs_charts, Mapping(order))
        /\ last_map' = Mapping(order)
    /\ embeds' = embeds + 1
    /\ UNCHANGED <<dfVars, pc, mode, anVars, fs_charts, chart_paths, runVars>>

NextApi == ApiExport \/ ApiGenerateCharts \/ ApiEmbed

SpecApi == InitApi /\ [][NextApi]_vars

(***************************************************************************)
(* Properties of clean_ipl_data (checked under SpecClean)                  *)
(***************************************************************************)
Cleaned == heap[df_ipl]

\* the input row an output row was made from: its index label names it
Source(row) == input0[row.idx + 1]

\* what the strings of the bounded inputs denote
Denotes(t) ==
    CASE t = <<"1", "2">> -> Num(12)
      [] t = <<"-", "2">> -> Num(0 - 2)
      [] OTHER -> NA

\* C1 as stated: after clean_ipl_data no field of the returned Dataset is
\* missing and each of Matches, Runs, Bat_SR, Wickets, Econ holds a
\* non-negative number.
C1_AllNumericNonNegative ==
    df_ipl # NoRef =>
        \A i \in 1..Len(Cleaned) :
            /\ \A col \in Columns : ~IsNa(Cleaned[i].c[col])
            /\ \A col \in {"Matches", "Runs", "Bat_SR", "Wickets", "Econ"} :
                   Cleaned[i].c[col].k = "num" /\ Cleaned[i].c[col].n >= 0

\* C1 amended: after clean_ipl_data no field of the returned Dataset is
\* missing; each of Runs, Wickets, Bat_SR, Econ holds a number, which is the
\* input number (negative ones included), the number a numeric string
\* denotes, or 0 for a missing or unparseable input; Matches is the input
\* value, or 0 where the input was missing.
C1_NoMissingAndCoerced ==
    df_ipl # NoRef =>
        \A i \in 1..Len(Cleaned) :
            LET out == Cleaned[i].c
                src == Source(Cleaned[i]).c
            IN  /\ \A col \in Columns : ~IsNa(out[col])
                /\ \A col \in {"Runs", "Wickets", "Bat_SR", "Econ"} :
                       /\ out[col].k = "num"
                       /\ src[col].k = "num" => out[col] = src[col]
                       /\ src[col].k = "na" => out[col] = Num(0)
                       /\ src[col].k = "str" =>
                              out[col] = IF IsNa(Denotes(src[col].s)) THEN Num(0)
                                         ELSE Denotes(src[col].s)
                /\ out["Matches"] = IF IsNa(src["Matches"]) THEN Num(0)
                                    ELSE src["Matches"]

\* a cleaned row made from a row with a missing name, an unparseable
\* Matches and Runs, a missing Wickets, a numeric string and a negative number
C1_Witness ==
    /\ df_ipl # NoRef
    /\ \E i \in 1..Len(Cleaned) :
           LET src == Source(Cleaned[i]).c
           IN  /\ IsNa(src["Player"])
               /\ src["Matches"] = Str(<<"x">>)
               /\ src["Runs"] = Str(<<"x">>)
               /\ IsNa(src["Wickets"])
               /\ src["Bat_SR"] = Str(<<"1", "2">>)
               /\ src["Econ"] = Num(0 - 1)

\* the identity of a raw row once missing names and teams read "Unknown"
KeyOf(row) ==
    <<IF IsNa(row.c["Player"]) THEN Str(Unknown) ELSE row.c["Player"],
      IF IsNa(row.c["Team"]) THEN Str(Unknown) ELSE row.c["Team"]>>

FirstOccurrences ==
    {i \in 1..Len(input0) : \A j \in 1..(i - 1) : KeyOf(input0[j]) # KeyOf(input0[i])}

\* C2: the output of clean_ipl_data has no two Records with the same
\* (Player, Team); the survivors are exactly the first occurrences of each
\* identity in the input, each with its own (normalised) stats, in input
\* order.
C2_FirstOccurrenceKept ==
    df_ipl # NoRef =>
        /\ \A i, j \in 1..Len(Cleaned) :
               i # j => Identity(Cleaned[i]) # Identity(Cleaned[j])
        /\ {Cleaned[i].idx + 1 : i \in 1..Len(Cleaned)} = FirstOccurrences
        /\ \A i \in 1..Len(Cleaned) :
               /\ Identity(Cleaned[i]) = KeyOf(Source(Cleaned[i]))
               /\ Cleaned[i].c =
                      CoerceCols(Fillna(<<Source(Cleaned[i])>>), Len(NumericCols))[1].c
        /\ \A i, j \in 1..Len(Cleaned) : i < j => Cleaned[i].idx < Cleaned[j].idx

\* three rows, the first and the last with the same identity (one by a
\* missing name, one by the name "Unknown") and different Runs
C2_Witness ==
    /\ df_ipl # NoRef
    /\ Len(input0) = 3 /\ Len(Cleaned) = 2
    /\ IsNa(input0[1].c["Player"]) /\ input0[3].c["Player"] = Str(Unknown)
    /\ input0[1].c["Runs"] # input0[3].c["Runs"]
    /\ Cleaned[1].idx = 0 /\ Cleaned[2].idx = 1

\* C5: cleaning the Dataset returned by clean_ipl_data returns an equal
\* Dataset: same Records, same values, same order.
C5_Idempotent == df_again # NoRef => heap[df_again] = heap[df_ipl]

\* a second cleaning of a result that the first cleaning filled and shortened
C5_Witness ==
    /\ df_again # NoRef
    /\ Len(Cleaned) < Len(input0)
    /\ \E i \in 1..Len(input0) : IsNa(input0[i].c["Player"])

\* C10: clean_ipl_data leaves the object it was given as it was: the
\* caller's Dataset keeps its Records, values and order.
C10_InputUnchanged == df_raw \in DOMAIN heap /\ heap[df_raw] = input0

\* the call has returned a Dataset that differs from its input
C10_Witness ==
    /\ df_ipl # NoRef
    /\ Cleaned # input0
    /\ \E i \in 1..Len(input0) : IsNa(input0[i].c["Runs"])

(***************************************************************************)
(* Properties of analyze_ipl (checked under SpecAnalyze)                   *)
(***************************************************************************)
Analyzed == summary # NoSummary

Df == heap[df_ipl]

Min(a, b) == IF a < b THEN a ELSE b

\* view is the top-N view of Df for the metric m
IsTopView(view, m) ==
    /\ Len(view) = Min(10, Len(Df))
    /\ \A i, j \in 1..Len(view) :
           i < j => /\ view[i].c[m].n >= view[j].c[m].n
                    /\ view[i].c[m].n = view[j].c[m].n => view[i].idx < view[j].idx
    /\ \A i \in 1..Len(view) :
           /\ DOMAIN view[i].c = {"Player", "Team", m}
           /\ \E k \in 1..Len(Df) :
                  /\ Df[k].idx = view[i].idx
                  /\ \A col \in {"Player", "Team", m} : view[i].c[col] = Df[k].c[col]
    /\ \A k \in 1..Len(Df) :
           (\A i \in 1..Len(view) : view[i].idx # Df[k].idx) =>
               \A i \in 1..Len(view) :
                   \/ view[i].c[m].n > Df[k].c[m].n
                   \/ view[i].c[m].n = Df[k].c[m].n /\ view[i].idx < Df[k].idx

\* C3: for a cleaned Dataset of n >= 1 Records the top-runs and top-wickets
\* views have min(10, n) entries, are sorted descending by their metric with
\* ties in dataset order, hold exactly the highest-ranked Records, and
\* carry Player, Team and the metric only.
C3_TopViews ==
    (Analyzed /\ Len(Df) >= 1) =>
        IsTopView(top_runs, "Runs") /\ IsTopView(top_wickets, "Wickets")

\* eleven Records, ties inside the runs view, and a Record left out that
\* ties with the last Record of the view
C3_Witness ==
    /\ Analyzed
    /\ Len(Df) = 11 /\ Len(top_runs) = 10
    /\ \E i \in 1..9 : top_runs[i].c["Runs"] = top_runs[i + 1].c["Runs"]
    /\ \E i \in 1..9 : top_runs[i].c["Runs"] # top_runs[i + 1].c["Runs"]
    /\ \E k \in 1..Len(Df) :
           /\ \A i \in 1..10 : top_runs[i].idx # Df[k].idx
           /\ Df[k].c["Runs"] = top_runs[10].c["Runs"]

NonZeroEcon == {i \in 1..Len(Df) : Df[i].c["Econ"].n # 0}

RECURSIVE EconTotal(_)
EconTotal(S) ==
    IF S = {} THEN 0
    ELSE LET i == CHOOSE x \in S : TRUE IN Df[i].c["Econ"].n + EconTotal(S \ {i})

\* C4: Avg_Bowling_Econ is the sum of Econ over the Records with nonzero
\* Econ divided by their number, and is NaN (not 0) when there is no such
\* Record.
C4_EconAverage ==
    Analyzed =>
        IF NonZeroEcon = {}
        THEN summary.Avg_Bowling_Econ = NaN
        ELSE /\ summary.Avg_Bowling_Econ.k = "num"
             /\ summary.Avg_Bowling_Econ.num = EconTotal(NonZeroEcon)
             /\ summary.Avg_Bowling_Econ.den = Cardinality(NonZeroEcon)

\* Records with zero Econ beside Records with different nonzero Econ
C4_Witness ==
    /\ Analyzed
    /\ Cardinality(NonZeroEcon) = 2 /\ Len(Df) = 3
    /\ \E i, j \in NonZeroEcon : Df[i].c["Econ"] # Df[j].c["Econ"]

(***************************************************************************)
(* Properties of the report pipeline (checked under Spec)                  *)
(***************************************************************************)
\* C7: in every run of main() and of the report button's handler,
\* embed_charts is called only after export_report has completed and
\* generate_charts has returned, also when an earlier call raises.
C7_EmbedLast ==
    \A i \in 1..Len(trace) :
        trace[i] = "embed_call" =>
            /\ \E j \in 1..(i - 1) : trace[j] = "export_ok"
            /\ \E j \in 1..(i - 1) : trace[j] = "charts_ok"

\* the app's handler has called embed_charts
C7_Witness ==
    /\ mode = "gui"
    /\ Len(trace) = 3 /\ trace[3] = "embed_call"

ReportSheets == <<"Top_Run_Scorers", "Top_Wicket_Takers", "Summary", "Charts">>

\* C8: after any number of complete runs against the same input and paths
\* the workbook is as after one run: the sheets Top_Run_Scorers,
\* Top_Wicket_Takers, Summary, Charts in this order, the same rows, and
\* four images on Charts.
C8_RerunSameWorkbook ==
    pc = "done" =>
        /\ SheetNames(fs_report) = ReportSheets
        /\ Len(ChartsSheet(fs_report).images) = 4
        /\ \A i \in 1..3 : fs_report.sheets[i].images = <<>>
        /\ fs_report.sheets[1].rows = SheetRows(top_runs, <<"Player", "Team", "Runs">>)
        /\ fs_report.sheets[2].rows = SheetRows(top_wickets, <<"Player", "Team", "Wickets">>)
        /\ fs_report.sheets[3].rows = SummaryRows(summary)
        /\ runs >= 1 => fs_report = book1

\* a third run has completed on a non-empty Dataset
C8_Witness ==
    /\ pc = "done" /\ runs = 2
    /\ Len(top_runs) >= 1

(***************************************************************************)
(* Properties of embed_charts (checked under SpecApi)                      *)
(***************************************************************************)
Images == ChartsSheet(fs_report).images

\* C6 as stated: after any sequence of embed_charts calls no two images on
\* the Charts sheet share an anchor.
C6_NoSharedAnchor ==
    (fs_report.state = "ok" /\ HasSheet(fs_report, "Charts")) =>
        \A i, j \in 1..Len(Images) : i # j => Images[i].anchor # Images[j].anchor

\* C9: one embed_charts call with a mapping of k entries puts k images on
\* the Charts sheet, the i-th entry (from 0) at column A, row 1 + 25*i; the
\* mapping of generate_charts is runs, wickets, team_runs, team_wickets, at
\* A1, A26, A51, A76.
C9_Anchors ==
    /\ embeds = 1 =>
        /\ Len(Images) = Len(last_map)
        /\ \A i \in 1..Len(Images) :
               /\ Images[i].anchor = [col |-> "A", row |-> 1 + 25 * (i - 1)]
               /\ Images[i].path = last_map[i].path
        /\ \A i, j \in 1..Len(Images) : i # j => Images[i].anchor # Images[j].anchor
    /\ chart_paths # <<>> =>
        [i \in 1..Len(chart_paths) |-> chart_paths[i].label]
            = <<"runs", "wickets", "team_runs", "team_wickets">>
    /\ (embeds = 1 /\ chart_paths # <<>> /\ last_map = chart_paths) =>
        [i \in 1..Len(Images) |-> Images[i].anchor.row] = <<1, 26, 51, 76>>

\* one call with the mapping generate_charts returned
C9_Witness ==
    /\ embeds = 1
    /\ Len(chart_paths) = 4 /\ last_map = chart_paths
    /\ Len(Images) = 4

====
